---- MODULE Spec2Model ----
(***************************************************************************)
(* Model of the Opta pipeline of pannadata:                                *)
(*   scripts/opta/consolidate_opta.py  (merge of partitions into the       *)
(*                                      consolidated files)                *)
(*   scripts/opta/scrape_opta.py       (manifest, scrape run, partition    *)
(*                                      writer combine_and_save)           *)
(*   scripts/opta/build_manifest.py    (manifest rebuild from partitions)  *)
(*                                                                         *)
(* A parquet file is a record [exists, ok, cols, rows]: ok = FALSE is a    *)
(* file pd.read_parquet raises on.  A DataFrame is its cols and rows; a    *)
(* row is a record over Columns in which an absent column holds NaN.       *)
(***************************************************************************)
EXTENDS Integers, Sequences, FiniteSets, TLC

\* ------------------------------------------------------------------------
\* Bounds of the model
\* ------------------------------------------------------------------------
MaxExisting == 3      \* rows, in all, of the consolidated files present before the first run
MaxPartRows == 2      \* rows, in all, of the partition files present then (an unreadable file counts 1)

MatchIds == {1, 2}

\* ------------------------------------------------------------------------
\* Data: columns, rows, files
\* ------------------------------------------------------------------------
NaN == 0
NaS == "NaN"

Columns == {"match_id", "player_id", "event_id", "event_type", "minute",
            "val", "competition", "season"}

\* scrape_opta.py:220
data_types == <<"player_stats", "shots", "shot_events", "match_events", "events", "lineups">>

DataTypes == {data_types[i] : i \in 1..Len(data_types)}

\* consolidate_opta.py:117 -- every directory of opta/ except match_events
table_types == SelectSeq(data_types, LAMBDA d : d # "match_events")

TableTypes == {table_types[i] : i \in 1..Len(table_types)}

\* opta/{table_type}/{league}/{season}.parquet, in the order glob yields them
Coords == << <<"EPL", "s1">>, <<"EPL", "s2">> >>

CoordIdx == 1..Len(Coords)

Leagues == {Coords[c][1] : c \in CoordIdx}

\* the columns of the dataclasses the scraper writes (val: the non-key payload)
Schema(tt) ==
  CASE tt \in {"player_stats", "shots", "lineups"} -> {"match_id", "player_id", "val"}
    [] tt \in {"shot_events", "match_events"} -> {"match_id", "event_id", "player_id", "minute", "val"}
    [] tt = "events" -> {"match_id", "event_type", "minute", "player_id", "val"}

MkRow(tt, mid, v) ==
  [match_id    |-> mid,
   player_id   |-> IF "player_id" \in Schema(tt) THEN 1 ELSE NaN,
   event_id    |-> IF "event_id" \in Schema(tt) THEN 1 ELSE NaN,
   event_type  |-> IF "event_type" \in Schema(tt) THEN 1 ELSE NaN,
   minute      |-> IF "minute" \in Schema(tt) THEN 1 ELSE NaN,
   val         |-> v,
   competition |-> NaS,
   season      |-> NaS]

NoFile == [exists |-> FALSE, ok |-> TRUE, cols |-> {}, rows |-> <<>>]

CorruptFile == [exists |-> TRUE, ok |-> FALSE, cols |-> {}, rows |-> <<>>]

DataFile(cols, rows) == [exists |-> TRUE, ok |-> TRUE, cols |-> cols, rows |-> rows]

Readable(f) == f.exists /\ f.ok

RECURSIVE SeqsUpTo(_, _)
SeqsUpTo(S, n) ==
  IF n = 0 THEN {<<>>}
  ELSE LET T == SeqsUpTo(S, n - 1)
       IN T \cup {Append(t, x) : t \in {u \in T : Len(u) = n - 1}, x \in S}

\* a read that adds no competition and no season
TagRowsMut(rows, comp, se) == rows

\* df['competition'] = ...; df['season'] = ...
TagRows(rows, comp, se) ==
  [i \in 1..Len(rows) |-> [rows[i] EXCEPT !.competition = comp, !.season = se]]

\* the null of a column: NaN in a numeric column, None in a string column
Null(c) == IF c \in {"val", "competition", "season"} THEN NaS ELSE NaN

\* the rows of a frame seen through the columns cols: a column the frame
\* does not have is null
reindex(rows, cols) ==
  [i \in 1..Len(rows) |-> [c \in Columns |-> IF c \in cols THEN rows[i][c] ELSE Null(c)]]

\* pd.concat(..., join='inner'): only the columns every frame has
concat_mut(a, b) ==
  LET cols == a.cols \cap b.cols
  IN [cols |-> cols, rows |-> reindex(a.rows, cols) \o reindex(b.rows, cols)]

\* pd.concat(dfs, ignore_index=True): the columns are the union of the
\* frames' columns, the rows follow each other in the order of dfs
concat(a, b) ==
  [cols |-> a.cols \cup b.cols,
   rows |-> reindex(a.rows, a.cols) \o reindex(b.rows, b.cols)]

KeyOf(r, subset) == [c \in subset |-> r[c]]

\* the other value of keep, under which the first record of a key is kept
KeepLastMut == "first"

\* keep='last' of the consolidation and of update_manifest
KeepLast == "last"

\* a drop_duplicates that removes nothing
drop_duplicates_mut(rows, subset, keep) == rows

\* DataFrame.drop_duplicates(subset, keep): NaN equals NaN, order is kept
drop_duplicates(rows, subset, keep) ==
  LET n == Len(rows)
      kept(i) == IF keep = "last"
                 THEN \A j \in (i+1)..n : KeyOf(rows[j], subset) # KeyOf(rows[i], subset)
                 ELSE \A j \in 1..(i-1) : KeyOf(rows[j], subset) # KeyOf(rows[i], subset)
      F[i \in 0..n] == IF i = 0 THEN <<>>
                       ELSE IF kept(i) THEN Append(F[i-1], rows[i]) ELSE F[i-1]
  IN F[n]

\* ------------------------------------------------------------------------
\* consolidate_opta.py
\* ------------------------------------------------------------------------
\* a key made of every column: only identical rows are duplicates
dedup_subset_mut(table_type, columns) == columns

\* a selection without the last branch: a table with none of the key
\* columns of its type is deduplicated on whole rows
dedup_subset_nofallback(table_type, columns) ==
  IF "event_id" \in columns /\ table_type \in {"shot_events", "match_events"}
  THEN {"match_id", "event_id"}
  ELSE IF table_type = "events" /\ {"match_id", "event_type", "minute", "player_id"} \subseteq columns
  THEN {"match_id", "event_type", "minute", "player_id"}
  ELSE IF "player_id" \in columns
  THEN {"match_id", "player_id"}
  ELSE columns

\* a selection that tries player_id before event_id
dedup_subset_playerfirst(table_type, columns) ==
  IF "player_id" \in columns
  THEN {"match_id", "player_id"}
  ELSE IF "event_id" \in columns /\ table_type \in {"shot_events", "match_events"}
  THEN {"match_id", "event_id"}
  ELSE IF table_type = "events" /\ {"match_id", "event_type", "minute", "player_id"} \subseteq columns
  THEN {"match_id", "event_type", "minute", "player_id"}
  ELSE {"match_id"}

\* consolidate_opta.py:173-181, the columns the deduplication uses
dedup_subset(table_type, columns) ==
  IF "event_id" \in columns /\ table_type \in {"shot_events", "match_events"}
  THEN {"match_id", "event_id"}
  ELSE IF table_type = "events" /\ {"match_id", "event_type", "minute", "player_id"} \subseteq columns
  THEN {"match_id", "event_type", "minute", "player_id"}
  ELSE IF "player_id" \in columns
  THEN {"match_id", "player_id"}
  ELSE {"match_id"}

\* a guard that rejects an empty result only
DataLossGuardMut(existing_count, n) == existing_count > 0 /\ 2 * n <= 0

\* a guard that also rejects a result of exactly half the existing count
DataLossGuardAtHalf(existing_count, n) == existing_count > 0 /\ 2 * n <= existing_count

\* consolidate_opta.py:80 and :186, len(combined) < existing_count * 0.5
DataLossGuard(existing_count, n) == existing_count > 0 /\ 2 * n < existing_count

NoFrame == [loaded |-> FALSE, cols |-> {}, rows |-> <<>>]

Frame(f) == [loaded |-> TRUE, cols |-> f.cols, rows |-> f.rows]

\* a merge that starts from the partitions alone
read_existing_mut(parent_file, output_file) == NoFrame

\* consolidate_opta.py:135-148, the first of the two paths that can be read
read_existing(parent_file, output_file) ==
  IF Readable(parent_file) THEN Frame(parent_file)
  ELSE IF Readable(output_file) THEN Frame(output_file)
  ELSE NoFrame

\* a loop that gives up what it has read at the first file it cannot read
read_partitions_mut(files, cs) ==
  LET F[i \in 0..Len(cs)] ==
        IF i = 0 THEN [n |-> 0, cols |-> {}, rows |-> <<>>]
        ELSE LET f == files[cs[i]]
                 prev == F[i-1]
                 df == [cols |-> f.cols \cup {"competition", "season"},
                        rows |-> TagRows(f.rows, Coords[cs[i]][1], Coords[cs[i]][2])]
                 dfs == concat(prev, df)
             IN IF Readable(f)
                THEN [n |-> prev.n + 1, cols |-> dfs.cols, rows |-> dfs.rows]
                ELSE F[0]
  IN F[Len(cs)]

\* consolidate_opta.py:151-162 and :58-65, the readable partition files of
\* the coordinates cs, each tagged with its competition and season
read_partitions(files, cs) ==
  LET F[i \in 0..Len(cs)] ==
        IF i = 0 THEN [n |-> 0, cols |-> {}, rows |-> <<>>]
        ELSE LET f == files[cs[i]]
                 prev == F[i-1]
                 df == [cols |-> f.cols \cup {"competition", "season"},
                        rows |-> TagRows(f.rows, Coords[cs[i]][1], Coords[cs[i]][2])]
                 dfs == concat(prev, df)
             IN IF Readable(f)
                THEN [n |-> prev.n + 1, cols |-> dfs.cols, rows |-> dfs.rows]
                ELSE prev
  IN F[Len(cs)]

AllCoords == [c \in CoordIdx |-> c]

\* one iteration of the loop of consolidate_opta (lines 121-198)
consolidate_table(table_type, files, parent_file, output_file) ==
  LET parquet_files == SelectSeq(AllCoords, LAMBDA c : files[c].exists)
      existing == read_existing(parent_file, output_file)
      existing_count == Len(existing.rows)
      new == read_partitions(files, parquet_files)
      cols == concat(existing, new).cols
      combined == concat(existing, new).rows
      deduped == IF "match_id" \in cols
                 THEN drop_duplicates(combined, dedup_subset(table_type, cols), KeepLast)
                 ELSE combined
  IN IF parquet_files = <<>> THEN [outcome |-> "SKIPPED", file |-> output_file]
     ELSE IF ~existing.loaded /\ new.n = 0 THEN [outcome |-> "SKIPPED", file |-> output_file]
     ELSE IF DataLossGuard(existing_count, Len(deduped))
     THEN [outcome |-> "REJECTED", file |-> output_file]
     ELSE [outcome |-> "WRITTEN", file |-> DataFile(cols, deduped)]

LeagueCoords(league) == SelectSeq(AllCoords, LAMBDA c : Coords[c][1] = league)

\* one iteration of the loop of consolidate_events_by_league (lines 35-90)
consolidate_league(league, files, existing_file) ==
  LET parquet_files == SelectSeq(LeagueCoords(league), LAMBDA c : files[c].exists)
      existing == IF Readable(existing_file) THEN Frame(existing_file) ELSE NoFrame
      existing_count == Len(existing.rows)
      new == read_partitions(files, parquet_files)
      cols == concat(existing, new).cols
      combined == concat(existing, new).rows
      deduped == IF "match_id" \in cols /\ "event_id" \in cols
                 THEN drop_duplicates(combined, {"match_id", "event_id"}, KeepLast)
                 ELSE combined
  IN IF existing_file.exists /\ ~existing_file.ok
     THEN [outcome |-> "ERROR", file |-> existing_file]
     ELSE IF parquet_files = <<>> /\ ~existing.loaded
     THEN [outcome |-> "SKIPPED", file |-> existing_file]
     ELSE IF ~existing.loaded /\ new.n = 0
     THEN [outcome |-> "SKIPPED", file |-> existing_file]
     ELSE IF DataLossGuard(existing_count, Len(deduped))
     THEN [outcome |-> "REJECTED", file |-> existing_file]
     ELSE [outcome |-> "WRITTEN", file |-> DataFile(cols, deduped)]

\* ------------------------------------------------------------------------
\* scrape_opta.py: the manifest
\* ------------------------------------------------------------------------
ManifestCols == {"match_id", "competition", "season", "has_player_stats", "has_shots",
                 "has_match_events", "has_lineups", "event_unavailable"}

ManifestKey == {"match_id", "competition", "season"}

KeyTuple(r) == <<r.match_id, r.competition, r.season>>

RowSet(rows) == {rows[i] : i \in 1..Len(rows)}

\* a load_manifest that returns no unavailable match
load_manifest_mut(manifest_file) ==
  IF ~manifest_file.exists THEN [complete |-> {}, unavailable |-> {}]
  ELSE IF ~manifest_file.ok THEN [complete |-> {}, unavailable |-> {}]
  ELSE [complete    |-> {KeyTuple(r) : r \in {x \in RowSet(manifest_file.rows) : x.has_match_events}},
        unavailable |-> {}]

\* load_manifest (lines 32-63): the sets (complete_matches, unavailable_matches)
load_manifest(manifest_file) ==
  IF ~manifest_file.exists THEN [complete |-> {}, unavailable |-> {}]
  ELSE IF ~manifest_file.ok THEN [complete |-> {}, unavailable |-> {}]
  ELSE [complete    |-> {KeyTuple(r) : r \in {x \in RowSet(manifest_file.rows) : x.has_match_events}},
        unavailable |-> {KeyTuple(r) : r \in {x \in RowSet(manifest_file.rows) : x.event_unavailable}}]

\* the else branch of update_manifest (line 85)
first_manifest(new_matches) == new_matches

\* an update_manifest that writes the new entries over the manifest
update_manifest_mut(manifest_file, new_matches) ==
  IF new_matches = <<>> THEN [raised |-> FALSE, file |-> manifest_file]
  ELSE [raised |-> FALSE, file |-> DataFile(ManifestCols, new_matches)]

\* update_manifest (lines 66-88); raised: pd.read_parquet failed on line 77
update_manifest(manifest_file, new_matches) ==
  IF new_matches = <<>> THEN [raised |-> FALSE, file |-> manifest_file]
  ELSE IF manifest_file.exists
  THEN IF ~manifest_file.ok THEN [raised |-> TRUE, file |-> manifest_file]
       ELSE [raised |-> FALSE,
             file   |-> DataFile(ManifestCols,
                          drop_duplicates(manifest_file.rows \o new_matches, ManifestKey, KeepLast))]
  ELSE [raised |-> FALSE, file |-> DataFile(ManifestCols, first_manifest(new_matches))]

\* ------------------------------------------------------------------------
\* scrape_opta.py: scrape_season
\* ------------------------------------------------------------------------
\* what OptaScraper._fetch hands back: None on a failed request (lines 519-524)
None == "None"

\* the versions of a match's data the upstream has served: v0, then the corrected v1
Payloads == {"v0", "v1"}

\* a matchevent answer that holds no event
NoEvents == "empty"

\* how a request can fail: the upstream answers 404 (it has no such data), or
\* the request times out, the network fails or the answer is not JSON
RequestFailures == {"404", "timeout"}

\* what the network and the upstream do with a matchevent request
EventOutcomes(version) == RequestFailures \cup {NoEvents, version}

\* OptaScraper._fetch (lines 508-524): raise_for_status makes the 404 a
\* RequestException, and every RequestException or JSONDecodeError is None
fetch(outcome) == IF outcome \in RequestFailures THEN None ELSE outcome

\* get_match_stats and get_match_events: the request fails or hands back the
\* upstream's current version (the latter possibly without any event)
StatsResponses(version) == {None, version}

EventResponses(version) == {fetch(o) : o \in EventOutcomes(version)}

\* the season the upstream lists a match under, and the day it was played
MatchCoord == <<1, 2>>

MatchDate == <<0, 6>>

\* timedelta(days=7) of scrape_opta.py:320
FreshDays == 7

MaxNow == 7           \* the last day of the clock

\* scrape_opta.py:319-320
is_recent(match_id, today) == today - MatchDate[match_id] < FreshDays

RECURSIVE SortedSeq(_)
SortedSeq(S) ==
  IF S = {} THEN <<>>
  ELSE LET m == CHOOSE x \in S : \A y \in S : x <= y
       IN <<m>> \o SortedSeq(S \ {m})

\* a scrape_season that skips every match of the league-season
skip_set_played(c, complete_matches, unavailable_matches, force_rescrape, retry_unavailable) ==
  {m \in DOMAIN MatchCoord : MatchCoord[m] = c}

\* a scrape_season that skips nothing
skip_set_mut(c, complete_matches, unavailable_matches, force_rescrape, retry_unavailable) == {}

\* scrape_opta.py:226-240
skip_set(c, complete_matches, unavailable_matches, force_rescrape, retry_unavailable) ==
  LET mine(S) == {k[1] : k \in {x \in S : x[2] = Coords[c][1] /\ x[3] = Coords[c][2]}}
  IN IF force_rescrape THEN {}
     ELSE mine(complete_matches) \cup (IF retry_unavailable THEN {} ELSE mine(unavailable_matches))

dedup_cols(tt) ==
  CASE tt \in {"player_stats", "shots", "lineups"} -> {"match_id", "player_id"}
    [] tt \in {"shot_events", "match_events"} -> {"match_id", "event_id"}
    [] tt = "events" -> {"match_id", "event_type", "minute", "player_id"}

\* the default keep of drop_duplicates on scrape_opta.py:358
KeepDefault == "first"

\* a writer that puts the scraped batch in the place of the file
combine_and_save_mut(new_data, cols, output_file, subset) ==
  IF new_data = <<>>
  THEN [raised |-> output_file.exists /\ ~output_file.ok, file |-> output_file]
  ELSE [raised |-> FALSE, file |-> DataFile(cols, new_data)]

\* combine_and_save (scrape_opta.py:344-364); raised: pd.read_parquet failed
combine_and_save(new_data, cols, output_file, subset) ==
  IF new_data = <<>>
  THEN [raised |-> output_file.exists /\ ~output_file.ok, file |-> output_file]
  ELSE IF output_file.exists
  THEN IF ~output_file.ok THEN [raised |-> TRUE, file |-> output_file]
       ELSE [raised |-> FALSE,
             file   |-> DataFile(output_file.cols \cup cols,
                          drop_duplicates(output_file.rows \o new_data, subset, KeepDefault))]
  ELSE [raised |-> FALSE, file |-> DataFile(cols, new_data)]

FromStats == {"player_stats", "shots", "events", "lineups"}

\* the loop over the played matches (scrape_opta.py:260-341): the matches
\* fetched, the rows collected per data type and the manifest records; sr
\* what get_match_stats returns, eo the outcome of the matchevent request
scrape_matches(c, played, skip, sr, eo, today) ==
  LET new_matches == SelectSeq(SortedSeq(played), LAMBDA m : m \notin skip)
      er == [m \in played |-> fetch(eo[m])]
      got == SelectSeq(new_matches, LAMBDA m : sr[m] # None)
      withEvents == SelectSeq(got, LAMBDA m : er[m] \in Payloads)
  IN [fetched |-> {<<"matches", c, "listed">>}
                  \cup {<<"stats", new_matches[i], sr[new_matches[i]]>> : i \in 1..Len(new_matches)}
                  \cup {<<"events", got[i], eo[got[i]]>> : i \in 1..Len(got)},
      rows    |-> [tt \in DataTypes |->
                     IF tt \in FromStats
                     THEN [i \in 1..Len(got) |-> MkRow(tt, got[i], sr[got[i]])]
                     ELSE [i \in 1..Len(withEvents) |-> MkRow(tt, withEvents[i], er[withEvents[i]])]],
      records |-> [i \in 1..Len(got) |->
                     [match_id          |-> got[i],
                      competition       |-> Coords[c][1],
                      season            |-> Coords[c][2],
                      has_player_stats  |-> TRUE,
                      has_shots         |-> TRUE,
                      has_match_events  |-> er[got[i]] # None,
                      has_lineups       |-> TRUE,
                      event_unavailable |-> er[got[i]] = None /\ ~is_recent(got[i], today)]]]

\* the six combine_and_save calls of scrape_opta.py:366-397, in their order;
\* the first that raises ends scrape_season with the files written so far
save_all(P, c, rows) ==
  LET res == [tt \in DataTypes |->
                combine_and_save(rows[tt], Schema(tt), P[tt][c], dedup_cols(tt))]
      bad == {i \in 1..Len(data_types) : res[data_types[i]].raised}
      done(i) == \A j \in bad : i < j
  IN [raised |-> bad # {},
      parts  |-> [tt \in DataTypes |->
                    [P[tt] EXCEPT ![c] =
                       IF \E i \in 1..Len(data_types) : data_types[i] = tt /\ done(i)
                       THEN res[tt].file ELSE @]]]

\* ------------------------------------------------------------------------
\* build_manifest.py
\* ------------------------------------------------------------------------
ScannedTypes == {"player_stats", "shots", "match_events", "lineups"}

\* build_manifest.py:47-67
table_match_ids(P, tt) ==
  UNION {IF Readable(P[tt][c])
         THEN {<<x.match_id, Coords[c][1], Coords[c][2]>> : x \in RowSet(P[tt][c].rows)}
         ELSE {} : c \in CoordIdx}

\* a rebuild that marks every entry unavailable
event_unavailable_mut(has_events, match_id, today) == TRUE

\* build_manifest.py:95
event_unavailable(has_events, match_id, today) == ~has_events

\* build_manifest.py:78-99: one record per (match_id, competition, season), sorted
build_manifest(P, today) ==
  LET all_matches == UNION {table_match_ids(P, tt) : tt \in ScannedTypes}
      mids == SortedSeq({k[1] : k \in all_matches})
      keys == [i \in 1..(Len(mids) * Len(Coords)) |->
                 <<mids[((i - 1) \div Len(Coords)) + 1],
                   Coords[((i - 1) % Len(Coords)) + 1][1],
                   Coords[((i - 1) % Len(Coords)) + 1][2]>>]
      sorted == SelectSeq(keys, LAMBDA k : k \in all_matches)
  IN [i \in 1..Len(sorted) |->
        LET has_events == sorted[i] \in table_match_ids(P, "match_events")
        IN [match_id          |-> sorted[i][1],
            competition       |-> sorted[i][2],
            season            |-> sorted[i][3],
            has_player_stats  |-> sorted[i] \in table_match_ids(P, "player_stats"),
            has_shots         |-> sorted[i] \in table_match_ids(P, "shots"),
            has_match_events  |-> has_events,
            has_lineups       |-> sorted[i] \in table_match_ids(P, "lineups"),
            event_unavailable |-> event_unavailable(has_events, sorted[i][1], today)]]

\* ------------------------------------------------------------------------
\* State
\* ------------------------------------------------------------------------
Units == TableTypes \cup Leagues

VARIABLES
  parts,        \* parts[table_type][c]: opta/{table_type}/{league}/{season}.parquet
  parent_files, \* parent_files[table_type]: {parent_dir}/opta_{table_type}.parquet
  output_files, \* output_files[table_type]: consolidated/opta_{table_type}.parquet
  events_files, \* events_files[league]: consolidated/match_events/events_{league}.parquet
  cpc,          \* position of the consolidation script: idle, opta, events
  errors,       \* the errors counter of the running consolidation
  outcome,      \* per unit, how its iteration of the last consolidation ended
  exit_code,    \* exit status of the last consolidation (-1: none yet)
  manifest,     \* opta-manifest.parquet
  now,          \* the day datetime.now() returns
  rpc,          \* position of scrape_opta.main: idle, scraping
  args,         \* [force, retry_unavailable] of the running or last scrape
  units_done,   \* how many league-seasons of scrape_plan the running scrape has done
  snapshot,     \* [complete, unavailable]: what load_manifest returned
  all_new_manifest_records,
  fetched,      \* the requests of the running or last scrape: <<kind, id, outcome>>
  listed,       \* the matches the upstream lists as Played
  upstream_version \* the version of the match data the upstream serves

cvars == <<parent_files, output_files, events_files, cpc, errors, outcome, exit_code>>

svars == <<manifest, now, rpc, args, units_done, snapshot, all_new_manifest_records, fetched>>

uvars == <<listed, upstream_version>>

vars == <<parts, cvars, svars, uvars>>

NoOutcome == [u \in Units |-> "PENDING"]

\* ------------------------------------------------------------------------
\* The consolidation script (consolidate_opta.py:204-209)
\* ------------------------------------------------------------------------
\* a script that removes the partition files it has merged
consolidate_opta_mut ==
  /\ cpc = "idle"
  /\ rpc = "idle"
  /\ LET res == [tt \in TableTypes |->
                   consolidate_table(tt, parts[tt], parent_files[tt], output_files[tt])]
     IN /\ output_files' = [tt \in TableTypes |-> res[tt].file]
        /\ outcome' = [u \in Units |-> IF u \in TableTypes THEN res[u].outcome ELSE "PENDING"]
        /\ errors' = Cardinality({tt \in TableTypes : res[tt].outcome = "REJECTED"})
        /\ parts' = [d \in DataTypes |->
                       IF d \in TableTypes /\ res[d].outcome = "WRITTEN"
                       THEN [c \in CoordIdx |-> NoFile]
                       ELSE parts[d]]
  /\ cpc' = "opta"
  /\ UNCHANGED <<parent_files, events_files, exit_code, svars, uvars>>

\* errors = consolidate_opta()
consolidate_opta ==
  /\ cpc = "idle"
  /\ rpc = "idle"
  /\ LET res == [tt \in TableTypes |->
                   consolidate_table(tt, parts[tt], parent_files[tt], output_files[tt])]
     IN /\ output_files' = [tt \in TableTypes |-> res[tt].file]
        /\ outcome' = [u \in Units |-> IF u \in TableTypes THEN res[u].outcome ELSE "PENDING"]
        /\ errors' = Cardinality({tt \in TableTypes : res[tt].outcome = "REJECTED"})
  /\ cpc' = "opta"
  /\ UNCHANGED <<parts, parent_files, events_files, exit_code, svars, uvars>>

\* a script that gives up the leagues once a table type was rejected
consolidate_events_by_league_mut ==
  /\ cpc = "opta"
  /\ LET res == [lg \in Leagues |->
                   IF errors > 0 THEN [outcome |-> "PENDING", file |-> events_files[lg]]
                   ELSE consolidate_league(lg, parts["match_events"], events_files[lg])]
     IN /\ events_files' = [lg \in Leagues |-> res[lg].file]
        /\ outcome' = [u \in Units |-> IF u \in Leagues THEN res[u].outcome ELSE outcome[u]]
        /\ errors' = errors + Cardinality({lg \in Leagues : res[lg].outcome \in {"REJECTED", "ERROR"}})
  /\ cpc' = "events"
  /\ UNCHANGED <<parts, parent_files, output_files, exit_code, svars, uvars>>

\* errors += consolidate_events_by_league()
consolidate_events_by_league ==
  /\ cpc = "opta"
  /\ LET res == [lg \in Leagues |->
                   consolidate_league(lg, parts["match_events"], events_files[lg])]
     IN /\ events_files' = [lg \in Leagues |-> res[lg].file]
        /\ outcome' = [u \in Units |-> IF u \in Leagues THEN res[u].outcome ELSE outcome[u]]
        /\ errors' = errors + Cardinality({lg \in Leagues : res[lg].outcome \in {"REJECTED", "ERROR"}})
  /\ cpc' = "events"
  /\ UNCHANGED <<parts, parent_files, output_files, exit_code, svars, uvars>>

\* if errors: sys.exit(1)
consolidate_exit ==
  /\ cpc = "events"
  /\ exit_code' = IF errors # 0 THEN 1 ELSE 0
  /\ cpc' = "idle"
  /\ UNCHANGED <<parts, parent_files, output_files, events_files, errors, outcome, svars, uvars>>

\* ------------------------------------------------------------------------
\* The scrape script (scrape_opta.main) and build_manifest
\* ------------------------------------------------------------------------
MaxPlan == 2          \* league-seasons in one scrape_plan

\* main, lines 422-496: the arguments and the manifest snapshot.  scrape_plan
\* is any list of at most MaxPlan league-seasons (a league may be named
\* twice on the command line); the model draws it one unit at a time
scrape_start ==
  /\ rpc = "idle"
  /\ cpc = "idle"
  /\ \E force \in BOOLEAN, retry \in BOOLEAN, today \in now..MaxNow :
       /\ args' = [force |-> force, retry_unavailable |-> retry]
       /\ units_done' = 0
       /\ now' = today
       /\ snapshot' = IF force THEN [complete |-> {}, unavailable |-> {}]
                      ELSE load_manifest(manifest)
  /\ all_new_manifest_records' = <<>>
  /\ fetched' = {}
  /\ rpc' = "scraping"
  /\ UNCHANGED <<parts, cvars, manifest, uvars>>

\* a loop that upserts the records of each league-season as soon as it is done
scrape_season_mut ==
  /\ rpc = "scraping"
  /\ units_done < MaxPlan
  /\ \E c \in CoordIdx :
     LET played == {m \in listed : MatchCoord[m] = c}
         skip == skip_set(c, snapshot.complete, snapshot.unavailable,
                          args.force, args.retry_unavailable)
     IN \E sr \in [played -> StatsResponses(upstream_version)],
           eo \in [played -> EventOutcomes(upstream_version)] :
            LET got == scrape_matches(c, played, skip, sr, eo, now)
                saved == save_all(parts, c, got.rows)
            IN /\ fetched' = fetched \cup got.fetched
               /\ parts' = saved.parts
               /\ all_new_manifest_records' =
                    IF saved.raised THEN all_new_manifest_records
                    ELSE all_new_manifest_records \o got.records
               /\ manifest' = IF saved.raised THEN manifest
                              ELSE update_manifest(manifest, got.records).file
  /\ units_done' = units_done + 1
  /\ UNCHANGED <<cvars, now, rpc, args, snapshot, uvars>>

\* main, lines 501-517: scrape_season for the next league-season of the plan
scrape_season ==
  /\ rpc = "scraping"
  /\ units_done < MaxPlan
  /\ \E c \in CoordIdx :
     LET played == {m \in listed : MatchCoord[m] = c}
         skip == skip_set(c, snapshot.complete, snapshot.unavailable,
                          args.force, args.retry_unavailable)
     IN \E sr \in [played -> StatsResponses(upstream_version)],
           eo \in [played -> EventOutcomes(upstream_version)] :
            LET got == scrape_matches(c, played, skip, sr, eo, now)
                saved == save_all(parts, c, got.rows)
            IN /\ fetched' = fetched \cup got.fetched
               /\ parts' = saved.parts
               /\ all_new_manifest_records' =
                    IF saved.raised THEN all_new_manifest_records
                    ELSE all_new_manifest_records \o got.records
  /\ units_done' = units_done + 1
  /\ UNCHANGED <<cvars, manifest, now, rpc, args, snapshot, uvars>>

\* main, lines 519-521: the one update_manifest of the run
scrape_finish ==
  /\ rpc = "scraping"
  /\ manifest' = update_manifest(manifest, all_new_manifest_records).file
  /\ all_new_manifest_records' = <<>>
  /\ snapshot' = [complete |-> {}, unavailable |-> {}]
  /\ rpc' = "idle"
  /\ UNCHANGED <<parts, cvars, now, args, units_done, fetched, uvars>>

\* build_manifest.py, run between scrapes over the partitions on disk
run_build_manifest ==
  /\ rpc = "idle"
  /\ cpc = "idle"
  /\ \E tt \in DataTypes, c \in CoordIdx : parts[tt][c].exists
  /\ manifest' = DataFile(ManifestCols, build_manifest(parts, now))
  /\ UNCHANGED <<parts, cvars, now, rpc, args, units_done, snapshot, all_new_manifest_records, fetched, uvars>>

\* ------------------------------------------------------------------------
\* The upstream
\* ------------------------------------------------------------------------
\* a match is played: get_season_matches lists it from now on
match_played ==
  /\ rpc = "idle"
  /\ cpc = "idle"
  /\ \E m \in MatchIds \ listed : listed' = listed \cup {m}
  /\ UNCHANGED <<parts, cvars, svars, upstream_version>>

\* the upstream corrects its data: later requests are served v1
upstream_correction ==
  /\ rpc = "idle"
  /\ cpc = "idle"
  /\ upstream_version = "v0"
  /\ upstream_version' = "v1"
  /\ UNCHANGED <<parts, cvars, svars, listed>>

\* ------------------------------------------------------------------------
\* The file system before the first consolidation
\* ------------------------------------------------------------------------
\* descriptor of an unreadable file
Corrupt == <<0>>

Descr(n) == IF n <= 0 THEN {} ELSE (SeqsUpTo(MatchIds, n) \ {<<>>}) \cup {Corrupt}

\* the ways to give each slot of S a descriptor (<<>>: no file), at most n
\* rows in all, an unreadable file counting as one row
RECURSIVE Assign(_, _)
Assign(S, n) ==
  IF S = {} THEN {<<>>}
  ELSE LET s == CHOOSE x \in S : TRUE
       IN UNION {{[x \in {s} |-> d] @@ f : f \in Assign(S \ {s}, n - Len(d))} :
                 d \in {<<>>} \cup Descr(n)}

\* a consolidated file found on disk, written by an earlier consolidation
\* (of any version of the script, so a key may repeat): rows of (EPL, s1),
\* payload v0
HistoricalFile(tt, d) ==
  IF d = <<>> THEN NoFile
  ELSE IF d = Corrupt THEN CorruptFile
  ELSE DataFile(Schema(tt) \cup {"competition", "season"},
                TagRows([i \in 1..Len(d) |-> MkRow(tt, d[i], "v0")], "EPL", "s1"))

\* a partition file as a scraper leaves it: payload v1
PartitionFile(tt, d) ==
  IF d = <<>> THEN NoFile
  ELSE IF d = Corrupt THEN CorruptFile
  ELSE DataFile(Schema(tt), [i \in 1..Len(d) |-> MkRow(tt, d[i], "v1")])

InitTables == {"player_stats"}

ExistingSlots == ({"parent", "output"} \X InitTables) \cup ({"events"} \X Leagues)

PartSlots == (InitTables \cup {"match_events"}) \X CoordIdx

ExistingConfigs == Assign(ExistingSlots, MaxExisting)

PartConfigs == Assign(PartSlots, MaxPartRows)

ScrapeIdle ==
  /\ now = MatchDate[2]
  /\ rpc = "idle"
  /\ args = [force |-> FALSE, retry_unavailable |-> FALSE]
  /\ units_done = 0
  /\ snapshot = [complete |-> {}, unavailable |-> {}]
  /\ all_new_manifest_records = <<>>
  /\ fetched = {}

ConsolidateIdle ==
  /\ cpc = "idle"
  /\ errors = 0
  /\ outcome = NoOutcome
  /\ exit_code = -1

\* consolidation over any file system within the bounds
InitC ==
  /\ \E g \in ExistingConfigs :
       /\ parent_files = [tt \in TableTypes |->
            IF tt \in InitTables THEN HistoricalFile(tt, g[<<"parent", tt>>]) ELSE NoFile]
       /\ output_files = [tt \in TableTypes |->
            IF tt \in InitTables THEN HistoricalFile(tt, g[<<"output", tt>>]) ELSE NoFile]
       /\ events_files = [lg \in Leagues |-> HistoricalFile("match_events", g[<<"events", lg>>])]
  /\ \E h \in PartConfigs :
       parts = [tt \in DataTypes |-> [c \in CoordIdx |->
                  IF <<tt, c>> \in PartSlots THEN PartitionFile(tt, h[<<tt, c>>]) ELSE NoFile]]
  /\ ConsolidateIdle
  /\ manifest = NoFile
  /\ ScrapeIdle
  /\ listed = {}
  /\ upstream_version = "v0"

NextC == consolidate_opta \/ consolidate_events_by_league \/ consolidate_exit

SpecC == InitC /\ [][NextC]_vars

\* the field sets partition files come with: the dataclass of the scraper
\* in use, and that of an earlier scraper that had no val field yet
FieldSets(tt) == {Schema(tt), Schema(tt) \ {"val"}}

\* a partition file of one row of match m with the fields fs
VersionedPartition(tt, m, fs) == DataFile(fs, reindex(<<MkRow(tt, m, "v1")>>, fs))

\* a consolidated file of one row of match m merged from a partition of
\* (EPL, s1) with the fields fs, by the script (tagged) or by an earlier
\* script that did not add competition and season yet
VersionedExisting(tt, m, fs, tagged) ==
  IF tagged
  THEN DataFile(fs \cup {"competition", "season"},
                TagRows(reindex(<<MkRow(tt, m, "v0")>>, fs), "EPL", "s1"))
  ELSE DataFile(fs, reindex(<<MkRow(tt, m, "v0")>>, fs))

PartitionVersions(tt) ==
  {NoFile} \cup {VersionedPartition(tt, m, fs) : m \in MatchIds, fs \in FieldSets(tt)}

ExistingVersions(tt) ==
  {NoFile} \cup {VersionedExisting(tt, m, fs, tagged) :
                   m \in MatchIds, fs \in FieldSets(tt), tagged \in BOOLEAN}

\* consolidation over files whose field sets differ
InitU ==
  /\ parent_files = [tt \in TableTypes |-> NoFile]
  /\ \E f \in ExistingVersions("player_stats") :
       output_files = [tt \in TableTypes |-> IF tt = "player_stats" THEN f ELSE NoFile]
  /\ \E f \in ExistingVersions("match_events") :
       events_files = [lg \in Leagues |-> f]
  /\ \E p \in [CoordIdx -> PartitionVersions("player_stats")],
        q \in [CoordIdx -> PartitionVersions("match_events")] :
       parts = [tt \in DataTypes |->
                  IF tt = "player_stats" THEN p
                  ELSE IF tt = "match_events" THEN q
                  ELSE [c \in CoordIdx |-> NoFile]]
  /\ ConsolidateIdle
  /\ manifest = NoFile
  /\ ScrapeIdle
  /\ listed = {}
  /\ upstream_version = "v0"

SpecU == InitU /\ [][NextC]_vars

\* a partition file without a row: a scrape that produced nothing
EmptyPartition(tt) == DataFile(Schema(tt), <<>>)

\* the existing batches the guard is tried on: up to MaxExisting rows of any
\* matches, a key possibly several times
GuardExisting(tt) == {HistoricalFile(tt, d) : d \in SeqsUpTo(MatchIds, MaxExisting)}

\* the partition files the guard is tried on: none, an empty one, one row
GuardPartitions(tt) ==
  {NoFile, EmptyPartition(tt)}
  \cup {DataFile(Schema(tt), <<MkRow(tt, m, "v1")>>) : m \in MatchIds}

\* consolidation of existing batches of every size with partitions that
\* bring nothing or one row
InitG ==
  /\ \E f \in GuardExisting("player_stats") :
       parent_files = [tt \in TableTypes |-> IF tt = "player_stats" THEN f ELSE NoFile]
  /\ output_files = [tt \in TableTypes |-> NoFile]
  /\ \E f \in GuardExisting("match_events") :
       events_files = [lg \in Leagues |-> f]
  /\ \E f \in GuardPartitions("player_stats"), g \in GuardPartitions("match_events") :
       parts = [tt \in DataTypes |-> [c \in CoordIdx |->
                  IF c = 1 /\ tt = "player_stats" THEN f
                  ELSE IF c = 1 /\ tt = "match_events" THEN g
                  ELSE NoFile]]
  /\ ConsolidateIdle
  /\ manifest = NoFile
  /\ ScrapeIdle
  /\ listed = {}
  /\ upstream_version = "v0"

SpecG == InitG /\ [][NextC]_vars

\* the table types of the three branches of the key selection
KeyTables == {"player_stats", "shot_events", "events"}

\* the columns a file may or may not have
KeyColumns == {"match_id", "player_id", "event_id", "event_type"}

KeyFieldSets == {(KeyColumns \ D) \cup {"minute", "val"} : D \in SUBSET KeyColumns}

\* a row with the given values in the columns fs, null in the others
KeyRow(m, p, e, t, v, fs) ==
  reindex(<<[match_id |-> m, player_id |-> p, event_id |-> e, event_type |-> t,
             minute |-> 1, val |-> v, competition |-> NaS, season |-> NaS]>>, fs)

\* consolidation of one table type whose existing batch and partition hold
\* one row each, with the same columns, alike or not in each key column
InitF ==
  /\ \E kt \in KeyTables, fs \in KeyFieldSets, m \in MatchIds, p, e, t \in BOOLEAN :
       /\ parent_files = [tt \in TableTypes |->
            IF tt = kt
            THEN DataFile(fs \cup {"competition", "season"},
                          TagRows(KeyRow(1, 1, 1, 1, "v0", fs), "EPL", "s1"))
            ELSE NoFile]
       /\ parts = [tt \in DataTypes |-> [c \in CoordIdx |->
            IF tt = kt /\ c = 1
            THEN DataFile(fs, KeyRow(m, IF p THEN 1 ELSE 2, IF e THEN 1 ELSE 2,
                                     IF t THEN 1 ELSE 2, "v1", fs))
            ELSE NoFile]]
  /\ output_files = [tt \in TableTypes |-> NoFile]
  /\ events_files = [lg \in Leagues |-> NoFile]
  /\ ConsolidateIdle
  /\ manifest = NoFile
  /\ ScrapeIdle
  /\ listed = {}
  /\ upstream_version = "v0"

SpecF == InitF /\ [][NextC]_vars

NoParts == [tt \in DataTypes |-> [c \in CoordIdx |-> NoFile]]

\* scraping from an empty data directory, the manifest absent or unreadable
InitS ==
  /\ parts = NoParts
  /\ parent_files = [tt \in TableTypes |-> NoFile]
  /\ output_files = [tt \in TableTypes |-> NoFile]
  /\ events_files = [lg \in Leagues |-> NoFile]
  /\ ConsolidateIdle
  /\ manifest \in {NoFile, CorruptFile}
  /\ ScrapeIdle
  /\ listed = {}
  /\ upstream_version = "v0"

NextS == scrape_start \/ scrape_season \/ scrape_finish \/ run_build_manifest \/ match_played

SpecS == InitS /\ [][NextS]_vars

\* scraping, upstream corrections and consolidation together: the upstream
\* lists one match, the data directory is empty
InitE ==
  /\ parts = NoParts
  /\ parent_files = [tt \in TableTypes |-> NoFile]
  /\ output_files = [tt \in TableTypes |-> NoFile]
  /\ events_files = [lg \in Leagues |-> NoFile]
  /\ ConsolidateIdle
  /\ manifest = NoFile
  /\ ScrapeIdle
  /\ listed = {1}
  /\ upstream_version = "v0"

NextE ==
  \/ scrape_start \/ scrape_season \/ scrape_finish
  \/ upstream_correction
  \/ consolidate_opta \/ consolidate_events_by_league \/ consolidate_exit

SpecE == InitE /\ [][NextE]_vars

\* a partition file as earlier runs of the scraper left it: no file, an
\* unreadable file, or the rows of some matches, each once, payload v0
ScrapedFiles(tt) ==
  {NoFile, CorruptFile}
  \cup {DataFile(Schema(tt), [i \in 1..Len(d) |-> MkRow(tt, d[i], "v0")]) :
         d \in {e \in SeqsUpTo(MatchIds, Cardinality(MatchIds)) :
                  e # <<>> /\ \A i, j \in 1..Len(e) : e[i] = e[j] => i = j}}

\* scraping over partition files of earlier runs: the upstream lists match 1
\* alone, the files of its season hold any of the matches
InitP ==
  /\ \E f \in ScrapedFiles("player_stats"), g \in ScrapedFiles("match_events") :
       parts = [tt \in DataTypes |-> [c \in CoordIdx |->
                  IF c = MatchCoord[1] /\ tt = "player_stats" THEN f
                  ELSE IF c = MatchCoord[1] /\ tt = "match_events" THEN g
                  ELSE NoFile]]
  /\ parent_files = [tt \in TableTypes |-> NoFile]
  /\ output_files = [tt \in TableTypes |-> NoFile]
  /\ events_files = [lg \in Leagues |-> NoFile]
  /\ ConsolidateIdle
  /\ manifest = NoFile
  /\ ScrapeIdle
  /\ listed = {1}
  /\ upstream_version = "v0"

NextP == scrape_start \/ scrape_season \/ scrape_finish \/ upstream_correction

SpecP == InitP /\ [][NextP]_vars

\* main, lines 422-496, started without --force
scrape_start_noforce == scrape_start /\ ~args'.force

\* scrape runs none of which uses the force flag, matches played in between
NextN == scrape_start_noforce \/ scrape_season \/ scrape_finish \/ match_played

SpecN == InitS /\ [][NextN]_vars

\* ------------------------------------------------------------------------
\* The consolidation script interrupted
\* ------------------------------------------------------------------------
\* the exit status of a process ended by a signal
Killed == -9

\* combined.to_parquet(output_file) writes to the consolidated path itself
\* (consolidate_opta.py:194, :87): a process ended during the call leaves
\* there the part of the file written so far, which cannot be read
to_parquet_interrupted(output_file) == CorruptFile

\* consolidate_opta ended by a signal in the iteration of the k-th table
\* type, before its to_parquet or during it
consolidate_opta_killed ==
  /\ cpc = "idle"
  /\ rpc = "idle"
  /\ \E k \in 1..Len(table_types), writing \in BOOLEAN :
       LET res == [tt \in TableTypes |->
                     consolidate_table(tt, parts[tt], parent_files[tt], output_files[tt])]
           idx(tt) == CHOOSE i \in 1..Len(table_types) : table_types[i] = tt
       IN /\ output_files' = [tt \in TableTypes |->
               IF idx(tt) < k THEN res[tt].file
               ELSE IF idx(tt) = k /\ writing /\ res[tt].outcome = "WRITTEN"
               THEN to_parquet_interrupted(output_files[tt])
               ELSE output_files[tt]]
          /\ outcome' = [u \in Units |->
               IF u \in TableTypes /\ idx(u) < k THEN res[u].outcome ELSE "PENDING"]
          /\ errors' = Cardinality({tt \in TableTypes : idx(tt) < k /\ res[tt].outcome = "REJECTED"})
  /\ exit_code' = Killed
  /\ UNCHANGED <<parts, parent_files, events_files, cpc, svars, uvars>>

\* consolidate_events_by_league ended by a signal in the iteration of a
\* league, before its to_parquet or during it
consolidate_events_by_league_killed ==
  /\ cpc = "opta"
  /\ \E lg \in Leagues, writing \in BOOLEAN :
       LET res == consolidate_league(lg, parts["match_events"], events_files[lg])
       IN events_files' = [events_files EXCEPT ![lg] =
            IF writing /\ res.outcome = "WRITTEN" THEN to_parquet_interrupted(@) ELSE @]
  /\ cpc' = "idle"
  /\ exit_code' = Killed
  /\ UNCHANGED <<parts, parent_files, output_files, errors, outcome, svars, uvars>>

NextK ==
  \/ consolidate_opta \/ consolidate_events_by_league \/ consolidate_exit
  \/ consolidate_opta_killed \/ consolidate_events_by_league_killed

\* consolidation runs that a signal may end at any point
SpecK == InitC /\ [][NextK]_vars

\* ------------------------------------------------------------------------
\* Properties of the consolidation
\* ------------------------------------------------------------------------
\* the identity key of a table type (policy table of the design, section 4.2)
IdentityKey(tt) ==
  CASE tt \in {"shot_events", "match_events"} -> {"match_id", "event_id"}
    [] tt = "events" -> {"match_id", "event_type", "minute", "player_id"}
    [] OTHER -> {"match_id", "player_id"}

Keys(rows, subset) == {KeyOf(rows[i], subset) : i \in 1..Len(rows)}

Unique(rows, subset) ==
  \A i, j \in 1..Len(rows) : KeyOf(rows[i], subset) = KeyOf(rows[j], subset) => i = j

HasPartitions(files) == \E c \in CoordIdx : files[c].exists

\* the rows of the readable partition files of a unit, tagged, in read order
NewRows(files) == read_partitions(files, SelectSeq(AllCoords, LAMBDA c : files[c].exists)).rows

\* the steps of the script that merge the tables and the leagues
TablesStep == cpc = "idle" /\ cpc' = "opta"

LeaguesStep == cpc = "opta" /\ cpc' = "events"

\* C1 -- data-loss guard: when the existing consolidated batch a unit loads
\* has N > 0 records and the merge of it with the unit's partitions
\* deduplicates to fewer than N/2 records, the unit is rejected, the errors
\* counter grows and the consolidated file is left exactly as it was
DataLossGuardRejects ==
  [][/\ TablesStep =>
          \A tt \in TableTypes :
            LET existing == read_existing(parent_files[tt], output_files[tt])
                N == Len(existing.rows)
                M == Cardinality(Keys(existing.rows \o NewRows(parts[tt]), IdentityKey(tt)))
            IN (HasPartitions(parts[tt]) /\ existing.loaded /\ N > 0 /\ 2 * M < N)
                 => /\ outcome'[tt] = "REJECTED"
                    /\ errors' > 0
                    /\ output_files'[tt] = output_files[tt]
     /\ LeaguesStep =>
          \A lg \in Leagues :
            LET N == Len(events_files[lg].rows)
                M == Cardinality(Keys(events_files[lg].rows \o NewRows(parts["match_events"]),
                                      IdentityKey("match_events")))
            IN (Readable(events_files[lg]) /\ N > 0 /\ 2 * M < N)
                 => /\ outcome'[lg] = "REJECTED"
                    /\ errors' > errors
                    /\ events_files'[lg] = events_files[lg]
     /\ (cpc = "events" /\ cpc' = "idle" /\ \E u \in Units : outcome[u] = "REJECTED")
          => exit_code' = 1 /\ output_files' = output_files /\ events_files' = events_files
    ]_vars

\* a finished run that rejected a table whose three existing rows share one key
DataLossGuardRejectsWitness ==
  /\ cpc = "idle"
  /\ exit_code = 1
  /\ outcome["player_stats"] = "REJECTED"
  /\ \/ Len(output_files["player_stats"].rows) = 3
     \/ Len(parent_files["player_stats"].rows) = 3

\* C2 -- identity uniqueness: in every consolidated batch a run has written,
\* no two records share the value of the table type's identity key
IdentityUnique ==
  /\ \A tt \in TableTypes :
       outcome[tt] = "WRITTEN" => Unique(output_files[tt].rows, IdentityKey(tt))
  /\ \A lg \in Leagues :
       outcome[lg] = "WRITTEN" => Unique(events_files[lg].rows, IdentityKey("match_events"))

\* a table written from an existing batch and a partition that share a key
IdentityUniqueWitness ==
  /\ outcome["player_stats"] = "WRITTEN"
  /\ outcome["EPL"] = "WRITTEN"
  /\ \E c \in CoordIdx : Readable(parts["player_stats"][c]) /\
       Keys(parts["player_stats"][c].rows, IdentityKey("player_stats")) \cap
       Keys(parent_files["player_stats"].rows, IdentityKey("player_stats")) # {}
  /\ Len(output_files["player_stats"].rows) > 0

\* the last row of rows that carries the key k
LastWith(rows, subset, k) ==
  rows[CHOOSE i \in 1..Len(rows) :
         /\ KeyOf(rows[i], subset) = k
         /\ \A j \in (i+1)..Len(rows) : KeyOf(rows[j], subset) # k]

\* the rows of a batch that carry the key k are exactly the last new row with k
NewWins(merged, existing, new, subset) ==
  \A k \in Keys(existing, subset) \cap Keys(new, subset) :
    {r \in RowSet(merged) : KeyOf(r, subset) = k} = {LastWith(new, subset, k)}

\* C3 -- last-write-wins in the merge: for every identity key present both in
\* the existing consolidated batch and in a new partition, the one record of
\* the written batch with that key is the record of the new partition (the
\* last one read), with its non-key values
LastWriteWins ==
  [][/\ TablesStep =>
          \A tt \in TableTypes :
            outcome'[tt] = "WRITTEN" =>
              NewWins(output_files'[tt].rows,
                      read_existing(parent_files[tt], output_files[tt]).rows,
                      NewRows(parts[tt]), IdentityKey(tt))
     /\ LeaguesStep =>
          \A lg \in Leagues :
            outcome'[lg] = "WRITTEN" =>
              NewWins(events_files'[lg].rows, events_files[lg].rows,
                      NewRows(parts["match_events"]), IdentityKey("match_events"))
    ]_vars

\* a written table holding the partition's payload v1 for a key that the
\* existing batch (the parent file) held with payload v0
LastWriteWinsWitness ==
  /\ outcome["player_stats"] = "WRITTEN"
  /\ Readable(parent_files["player_stats"])
  /\ \E m \in MatchIds :
       /\ \E r \in RowSet(parent_files["player_stats"].rows) : r.match_id = m /\ r.val = "v0"
       /\ \E r \in RowSet(NewRows(parts["player_stats"])) : r.match_id = m /\ r.val = "v1"
       /\ \E r \in RowSet(output_files["player_stats"].rows) : r.match_id = m /\ r.val = "v1"

\* C4 -- durable superset: every identity key held by a consolidated output
\* file before a step of the consolidation is still held by that file after it
KeysNeverShrink ==
  [][/\ \A tt \in TableTypes :
          Readable(output_files[tt]) =>
            /\ Readable(output_files'[tt])
            /\ Keys(output_files[tt].rows, IdentityKey(tt))
                 \subseteq Keys(output_files'[tt].rows, IdentityKey(tt))
     /\ \A lg \in Leagues :
          Readable(events_files[lg]) =>
            /\ Readable(events_files'[lg])
            /\ Keys(events_files[lg].rows, IdentityKey("match_events"))
                 \subseteq Keys(events_files'[lg].rows, IdentityKey("match_events"))
    ]_vars

\* C6 -- idempotence: a consolidation run that follows a completed run over
\* the same partition files leaves every consolidated file, of a table type
\* and of a league, exactly as the first run left it
SecondRunChangesNothing ==
  [][(exit_code # -1 /\ (TablesStep \/ LeaguesStep))
       => output_files' = output_files /\ events_files' = events_files]_vars

\* a second run has merged a table that the first run wrote from an existing
\* output file and a partition
SecondRunChangesNothingWitness ==
  /\ exit_code = 0
  /\ cpc = "events"
  /\ outcome["player_stats"] = "WRITTEN"
  /\ outcome["EPL"] = "WRITTEN"
  /\ ~parent_files["player_stats"].exists
  /\ Len(output_files["player_stats"].rows) > Len(NewRows(parts["player_stats"]))
  /\ Len(NewRows(parts["player_stats"])) > 0

\* ------------------------------------------------------------------------
\* Properties of the scrape run and of the manifest
\* ------------------------------------------------------------------------
\* the manifest key of match m in the season the upstream lists it under
ManifestKeyOf(m) == <<m, Coords[MatchCoord[m]][1], Coords[MatchCoord[m]][2]>>

\* the requests of the run for the data of match m
MatchFetches(m) == {f \in fetched : f[1] \in {"stats", "events"} /\ f[2] = m}

\* the run has scraped the season of match m
SeasonScraped(m) == <<"matches", MatchCoord[m], "listed">> \in fetched

\* C5 -- manifest skip correctness: in a run without the force flag, a match
\* whose manifest entry has has_match_events = true at the start of the run
\* is fetched by no scrape_season of the run, neither its stats nor its events
CompleteNeverFetched ==
  (rpc = "scraping" /\ ~args.force /\ Readable(manifest)) =>
    \A r \in RowSet(manifest.rows) :
      (r.has_match_events /\ KeyTuple(r) = ManifestKeyOf(r.match_id))
        => MatchFetches(r.match_id) = {}

\* a run without force has scraped the season of a listed match the manifest
\* holds as complete, and has fetched the season's other data only
CompleteNeverFetchedWitness ==
  /\ rpc = "scraping"
  /\ ~args.force
  /\ Readable(manifest)
  /\ \E m \in listed :
       /\ \E r \in RowSet(manifest.rows) : r.has_match_events /\ KeyTuple(r) = ManifestKeyOf(m)
       /\ SeasonScraped(m)
       /\ MatchFetches(m) = {}
  /\ \E m \in listed : MatchFetches(m) # {}

\* C7 -- freshness carve-out: no entry a manifest writer produces, the
\* records of a scrape run or the manifest build_manifest writes, has
\* event_unavailable = true for a match less than 7 days old
RecentNeverUnavailable ==
  /\ \A r \in RowSet(all_new_manifest_records) :
       r.event_unavailable => now - MatchDate[r.match_id] >= FreshDays
  /\ Readable(manifest) =>
       \A r \in RowSet(manifest.rows) :
         r.event_unavailable => now - MatchDate[r.match_id] >= FreshDays

\* the step on which main calls update_manifest with entries and it returns
UpsertStep ==
  /\ rpc = "scraping" /\ rpc' = "idle"
  /\ all_new_manifest_records # <<>>
  /\ manifest.exists => manifest.ok

\* C9 -- manifest upsert: after update_manifest(entries) the manifest holds at
\* most one entry per (match_id, competition, season) and, for every key of
\* the new entries, the last new entry of that key, whether or not a manifest
\* file existed before
ManifestUpsert ==
  [][UpsertStep =>
       /\ Readable(manifest')
       /\ Unique(manifest'.rows, ManifestKey)
       /\ NewWins(manifest'.rows, all_new_manifest_records, all_new_manifest_records, ManifestKey)
    ]_vars

\* C10 -- manifest entries are never deleted: no step of a scrape run removes
\* a (match_id, competition, season) key from the persisted manifest
ManifestKeysKept ==
  [][((rpc = "scraping" \/ rpc' = "scraping") /\ Readable(manifest)) =>
       /\ Readable(manifest')
       /\ Keys(manifest.rows, ManifestKey) \subseteq Keys(manifest'.rows, ManifestKey)
    ]_vars

\* a finished run has added the entry of one match to a manifest that held,
\* and still holds, the entry of the other match
ManifestKeysKeptWitness ==
  /\ rpc = "idle"
  /\ Readable(manifest)
  /\ Cardinality(Keys(manifest.rows, ManifestKey)) = 2
  /\ \E m \in MatchIds : SeasonScraped(m) /\ MatchFetches(m) # {} /\
       \A n \in MatchIds \ {m} : MatchFetches(n) = {}

\* the rows of match m in a file
RowsOf(f, m) == {r \in RowSet(f.rows) : r.match_id = m}

\* the file holds match m, with the corrected payload v1 only
CarriesFresh(f, m) == RowsOf(f, m) # {} /\ \A r \in RowsOf(f, m) : r.val = "v1"

\* a run with --force has fetched the corrected stats of match m
FreshlyScraped(a, log, m) == a.force /\ <<"stats", m, "v1">> \in log

\* C8 -- fresh corrections supersede stale ones end to end: once a forced run
\* has re-scraped a match and got values that differ from the stored ones,
\* the partition file carries the fresh values, and so does the consolidated
\* batch after the consolidation that follows the run
FreshSupersedesStale ==
  [][\A m \in MatchIds :
       /\ FreshlyScraped(args', fetched', m)
            => CarriesFresh(parts'["player_stats"][MatchCoord[m]], m)
       /\ (TablesStep /\ FreshlyScraped(args, fetched, m))
            => CarriesFresh(output_files'["player_stats"], m)
    ]_vars

\* C11 -- unavailable matches are skipped by default: in a run with neither
\* --force nor --retry-unavailable, a match whose manifest entry has
\* event_unavailable = true at the start of the run is fetched by no
\* scrape_season of the run; only a run with one of the two flags fetches it
UnavailableNeverFetched ==
  (rpc = "scraping" /\ ~args.force /\ ~args.retry_unavailable /\ Readable(manifest)) =>
    \A r \in RowSet(manifest.rows) :
      (r.event_unavailable /\ KeyTuple(r) = ManifestKeyOf(r.match_id))
        => MatchFetches(r.match_id) = {}

\* a run without either flag has scraped the season of a listed match that the
\* manifest holds as unavailable and not as complete, and has not fetched it
UnavailableNeverFetchedWitness ==
  /\ rpc = "scraping"
  /\ ~args.force /\ ~args.retry_unavailable
  /\ Readable(manifest)
  /\ \E m \in listed :
       /\ \E r \in RowSet(manifest.rows) : r.event_unavailable /\ KeyTuple(r) = ManifestKeyOf(m)
       /\ \A r \in RowSet(manifest.rows) : ~r.has_match_events
       /\ SeasonScraped(m)
       /\ MatchFetches(m) = {}

\* the step on which the script exits
ExitStep == cpc = "events" /\ cpc' = "idle"

HasReadable(files) == \E c \in CoordIdx : Readable(files[c])

\* every unit is processed whatever happened to the others: none is left
\* pending, and a unit with a readable partition and no existing file is written
UnitsIsolated ==
  /\ TablesStep =>
       \A tt \in TableTypes :
         /\ outcome'[tt] # "PENDING"
         /\ (HasReadable(parts[tt]) /\ ~parent_files[tt].exists /\ ~output_files[tt].exists)
              => /\ outcome'[tt] = "WRITTEN"
                 /\ Keys(output_files'[tt].rows, IdentityKey(tt))
                      = Keys(NewRows(parts[tt]), IdentityKey(tt))
  /\ LeaguesStep =>
       \A lg \in Leagues :
         /\ outcome'[lg] # "PENDING"
         /\ (HasReadable(parts["match_events"]) /\ ~events_files[lg].exists)
              => /\ outcome'[lg] = "WRITTEN"
                 /\ Keys(events_files'[lg].rows, IdentityKey("match_events"))
                      = Keys(NewRows(parts["match_events"]), IdentityKey("match_events"))

\* C12 as stated -- fault isolation and exit status: a rejected unit does not
\* stop the other units, and the exit code is non-zero if and only if at
\* least one unit of the run was rejected by the data-loss guard
ExitNonZeroIffRejected ==
  [][/\ UnitsIsolated
     /\ ExitStep => (exit_code' # 0 <=> \E u \in Units : outcome[u] = "REJECTED")
    ]_vars

\* C12 amended -- a rejected unit does not stop the other units, and the
\* exit code is non-zero if and only if at least one unit was rejected by
\* the data-loss guard or a league was skipped because its existing
\* consolidated file could not be read
ExitNonZeroIffError ==
  [][/\ UnitsIsolated
     /\ ExitStep => (exit_code' # 0 <=> \E u \in Units : outcome[u] \in {"REJECTED", "ERROR"})
    ]_vars

\* a finished run that rejected a table type and still wrote the league
ExitNonZeroIffErrorWitness ==
  /\ cpc = "idle"
  /\ exit_code = 1
  /\ outcome["player_stats"] = "REJECTED"
  /\ outcome["EPL"] = "WRITTEN"
  /\ Len(events_files["EPL"].rows) > 0

\* C13 -- atomic replacement: whatever the point at which a consolidation
\* run is interrupted, a consolidated file holds the complete previous batch
\* or the complete new batch: no step leaves a file that cannot be read where
\* there was none or a readable one
NeverPartiallyWritten ==
  [][/\ \A tt \in TableTypes :
          (output_files'[tt].exists /\ ~output_files'[tt].ok)
            => output_files'[tt] = output_files[tt]
     /\ \A lg \in Leagues :
          (events_files'[lg].exists /\ ~events_files'[lg].ok)
            => events_files'[lg] = events_files[lg]
    ]_vars

\* C14 -- a manifest that cannot be read is an empty manifest for the whole
\* run: every listed match of a season the run scrapes is fetched, and a run
\* that has new entries ends with a readable manifest that holds them
CorruptManifestAsEmpty ==
  [][(manifest.exists /\ ~manifest.ok) =>
       /\ rpc' = "scraping" =>
            \A m \in listed : SeasonScraped(m)' => MatchFetches(m)' # {}
       /\ (rpc = "scraping" /\ rpc' = "idle" /\ all_new_manifest_records # <<>>) =>
            /\ Readable(manifest')
            /\ Keys(all_new_manifest_records, ManifestKey)
                 \subseteq Keys(manifest'.rows, ManifestKey)
    ]_vars

\* C15 -- only a confirmed absence propagates: a manifest record the run
\* collects has event_unavailable = true only if the upstream answered 404 to
\* the event request of that match in this run and the match is older than the
\* freshness threshold; a timeout, network error or unparsable answer never
\* sets the flag
OnlyConfirmedUnavailable ==
  rpc = "scraping" =>
    \A i \in 1..Len(all_new_manifest_records) :
      LET r == all_new_manifest_records[i]
      IN r.event_unavailable =>
           /\ <<"events", r.match_id, "404">> \in fetched
           /\ ~is_recent(r.match_id, now)

\* the partition files of a unit without those that cannot be read
OnlyReadable(files) == [c \in CoordIdx |-> IF Readable(files[c]) THEN files[c] ELSE NoFile]

HasUnreadable(files) == \E c \in CoordIdx : files[c].exists /\ ~files[c].ok

\* the keys of the readable partition files of a unit are all in rows
ReadableKeysIn(files, rows, subset) ==
  \A c \in CoordIdx :
    Readable(files[c]) => Keys(files[c].rows, subset) \subseteq Keys(rows, subset)

\* C16 -- partition read failures are isolated: a unit with a partition file
\* that cannot be read and one that can is merged exactly as if the unreadable
\* file were not there, a written output holds the keys of every readable
\* partition, and every unit of the step is processed
PartitionFailuresIsolated ==
  [][/\ TablesStep =>
          \A tt \in TableTypes :
            /\ outcome'[tt] # "PENDING"
            /\ (HasUnreadable(parts[tt]) /\ HasReadable(parts[tt])) =>
                 LET r == consolidate_table(tt, OnlyReadable(parts[tt]),
                                            parent_files[tt], output_files[tt])
                 IN /\ outcome'[tt] = r.outcome
                    /\ output_files'[tt] = r.file
                    /\ outcome'[tt] = "WRITTEN" =>
                         ReadableKeysIn(parts[tt], output_files'[tt].rows, IdentityKey(tt))
     /\ LeaguesStep =>
          \A lg \in Leagues :
            LET files == parts["match_events"]
            IN /\ outcome'[lg] # "PENDING"
               /\ (HasUnreadable(files) /\ HasReadable(files)) =>
                    LET r == consolidate_league(lg, OnlyReadable(files), events_files[lg])
                    IN /\ outcome'[lg] = r.outcome
                       /\ events_files'[lg] = r.file
                       /\ outcome'[lg] = "WRITTEN" =>
                            ReadableKeysIn(files, events_files'[lg].rows,
                                           IdentityKey("match_events"))
    ]_vars

\* a table type with an unreadable and a non-empty readable partition file
\* was written
PartitionFailuresIsolatedWitness ==
  /\ cpc = "opta"
  /\ HasUnreadable(parts["player_stats"])
  /\ \E c \in CoordIdx : Readable(parts["player_stats"][c])
                          /\ Len(parts["player_stats"][c].rows) > 0
  /\ outcome["player_stats"] = "WRITTEN"
  /\ Len(output_files["player_stats"].rows) > 0

\* the batches a unit merges: the existing consolidated batch and the
\* readable partition files, tagged
Batches(existing, files) ==
  (IF Readable(existing) THEN {[cols |-> existing.cols, rows |-> existing.rows]} ELSE {})
  \cup {[cols |-> files[c].cols \cup {"competition", "season"},
         rows |-> TagRows(files[c].rows, Coords[c][1], Coords[c][2])] :
        c \in {d \in CoordIdx : Readable(files[d])}}

\* out has the union of the columns of the batches, and each of its rows is
\* a row of a batch, null in the columns that batch does not have
IsSchemaUnion(out, batches) ==
  /\ out.cols = UNION {b.cols : b \in batches}
  /\ \A i \in 1..Len(out.rows) :
       \E b \in batches : \E j \in 1..Len(b.rows) :
         /\ \A c \in b.cols : out.rows[i][c] = b.rows[j][c]
         /\ \A c \in out.cols \ b.cols : out.rows[i][c] = Null(c)

\* C17 -- schema union: the consolidated batch a unit writes has the union
\* of the field sets of the existing batch and of the readable partitions
\* (each with its competition and season), and each of its records is null
\* in the fields its source batch does not have
SchemaUnion ==
  [][/\ TablesStep =>
          \A tt \in TableTypes :
            outcome'[tt] = "WRITTEN" =>
              IsSchemaUnion(output_files'[tt],
                            Batches(IF Readable(parent_files[tt]) THEN parent_files[tt]
                                    ELSE output_files[tt], parts[tt]))
     /\ LeaguesStep =>
          \A lg \in Leagues :
            outcome'[lg] = "WRITTEN" =>
              IsSchemaUnion(events_files'[lg], Batches(events_files[lg], parts["match_events"]))
    ]_vars

\* an untagged existing batch with val was merged with a partition without
\* val: the written batch has both fields and a record null in each
SchemaUnionWitness ==
  /\ cpc = "opta"
  /\ outcome["player_stats"] = "WRITTEN"
  /\ {"val", "competition", "season"} \subseteq output_files["player_stats"].cols
  /\ \E c \in CoordIdx : Readable(parts["player_stats"][c])
                          /\ "val" \notin parts["player_stats"][c].cols
  /\ \E i, j \in 1..Len(output_files["player_stats"].rows) :
       /\ output_files["player_stats"].rows[i].val = NaS
       /\ output_files["player_stats"].rows[i].competition # NaS
       /\ output_files["player_stats"].rows[j].val # NaS
       /\ output_files["player_stats"].rows[j].competition = NaS

\* the consolidated batch a table type loads: the first readable of the
\* file of the parent directory and the file of the output directory
LoadedRows(tt) ==
  IF Readable(parent_files[tt]) THEN parent_files[tt].rows
  ELSE IF Readable(output_files[tt]) THEN output_files[tt].rows
  ELSE <<>>

\* rows has each key of K once and no other key
ExactlyKeys(rows, subset, K) ==
  /\ Keys(rows, subset) = K
  /\ Len(rows) = Cardinality(K)

\* C18 -- no key is lost or invented by an accepted merge: the keys of the
\* batch a unit writes are the keys of the existing batch it loaded together
\* with the keys of its readable partitions, and the batch has one record
\* for each of them
KeysExactlyUnion ==
  [][/\ TablesStep =>
          \A tt \in TableTypes :
            outcome'[tt] = "WRITTEN" =>
              ExactlyKeys(output_files'[tt].rows, IdentityKey(tt),
                          Keys(LoadedRows(tt), IdentityKey(tt))
                            \cup Keys(NewRows(parts[tt]), IdentityKey(tt)))
     /\ LeaguesStep =>
          \A lg \in Leagues :
            outcome'[lg] = "WRITTEN" =>
              ExactlyKeys(events_files'[lg].rows, IdentityKey("match_events"),
                          Keys(events_files[lg].rows, IdentityKey("match_events"))
                            \cup Keys(NewRows(parts["match_events"]),
                                      IdentityKey("match_events")))
    ]_vars

\* an existing batch of one key was merged with partitions that hold that
\* key and a new one: the written batch has two records
KeysExactlyUnionWitness ==
  /\ cpc = "opta"
  /\ outcome["player_stats"] = "WRITTEN"
  /\ Readable(parent_files["player_stats"])
  /\ Cardinality(Keys(parent_files["player_stats"].rows, IdentityKey("player_stats"))) = 1
  /\ Keys(parent_files["player_stats"].rows, IdentityKey("player_stats"))
       \subseteq Keys(NewRows(parts["player_stats"]), IdentityKey("player_stats"))
  /\ Cardinality(Keys(NewRows(parts["player_stats"]), IdentityKey("player_stats"))) = 2
  /\ Len(output_files["player_stats"].rows) = 2

\* every key of every readable partition file is in rows under the
\* coordinate of that file
KeptPerCoordinate(files, rows, subset) ==
  \A c \in CoordIdx :
    Readable(files[c]) =>
      \A k \in Keys(files[c].rows, subset) :
        \E i \in 1..Len(rows) :
          /\ KeyOf(rows[i], subset) = k
          /\ rows[i].competition = Coords[c][1]
          /\ rows[i].season = Coords[c][2]

Holders(files, subset, k) ==
  {c \in CoordIdx : Readable(files[c]) /\ k \in Keys(files[c].rows, subset)}

Last(S) == CHOOSE c \in S : \A d \in S : d <= c

\* rows has one record for each key of the partition files, carrying the
\* competition and season of the last file read that holds the key
LastCoordinateKept(files, rows, subset) ==
  \A c \in CoordIdx :
    Readable(files[c]) =>
      \A k \in Keys(files[c].rows, subset) :
        LET last == Last(Holders(files, subset, k))
            at == {i \in 1..Len(rows) : KeyOf(rows[i], subset) = k}
        IN /\ Cardinality(at) = 1
           /\ \A i \in at : /\ rows[i].competition = Coords[last][1]
                             /\ rows[i].season = Coords[last][2]

UnitFrame ==
  [][/\ (TablesStep \/ LeaguesStep \/ ExitStep) =>
          /\ parts' = parts
          /\ parent_files' = parent_files
     /\ TablesStep =>
          /\ events_files' = events_files
          /\ \A tt \in TableTypes :
               outcome'[tt] # "WRITTEN" => output_files'[tt] = output_files[tt]
     /\ LeaguesStep =>
          /\ output_files' = output_files
          /\ \A lg \in Leagues :
               outcome'[lg] # "WRITTEN" => events_files'[lg] = events_files[lg]
     /\ ExitStep =>
          /\ output_files' = output_files
          /\ events_files' = events_files
    ]_vars

\* a table type and a league were written from their partition files, which
\* are still there, next to table types that were skipped
UnitFrameWitness ==
  /\ cpc = "events"
  /\ outcome["player_stats"] = "WRITTEN"
  /\ outcome["EPL"] = "WRITTEN"
  /\ outcome["shots"] = "SKIPPED"
  /\ \E c \in CoordIdx : Readable(parts["player_stats"][c])
                          /\ Len(parts["player_stats"][c].rows) > 0
  /\ \E c \in CoordIdx : Readable(parts["match_events"][c])
                          /\ Len(parts["match_events"][c].rows) > 0

\* the steps of a scrape run: its start, one league-season, its end
StartStep == rpc = "idle" /\ rpc' = "scraping"

UnitStep == rpc = "scraping" /\ rpc' = "scraping"

FinishStep == rpc = "scraping" /\ rpc' = "idle"

\* what load_manifest gives a run with the arguments a over the manifest f
SnapshotOf(a, f) ==
  IF a.force THEN [complete |-> {}, unavailable |-> {}] ELSE load_manifest(f)

\* the matches the run with arguments a skips in the season of m, decided
\* on the manifest f
SkippedOn(a, f, m) ==
  m \in skip_set(MatchCoord[m], SnapshotOf(a, f).complete, SnapshotOf(a, f).unavailable,
                 a.force, a.retry_unavailable)

\* C21 -- the manifest is read once at the start of a scrape run and written
\* at most once at its end: the start and the league-seasons of a run leave
\* the manifest file as it is, every league-season decides what to skip on
\* the snapshot taken at the start, every match a league-season has fetched
\* the stats of has a record in the accumulator, and the one upsert at the
\* end writes, for every key of the accumulator, its last record
ManifestOncePerRun ==
  [][/\ (StartStep \/ UnitStep) =>
          /\ manifest' = manifest
          /\ snapshot' = SnapshotOf(args', manifest)
          /\ \A m \in listed :
               SeasonScraped(m)' =>
                 (SkippedOn(args', manifest, m) <=> MatchFetches(m)' = {})
          /\ \A f \in fetched' :
               (f[1] = "stats" /\ f[3] # None) =>
                 \E i \in 1..Len(all_new_manifest_records') :
                   all_new_manifest_records'[i].match_id = f[2]
     /\ FinishStep =>
          /\ all_new_manifest_records = <<>> => manifest' = manifest
          /\ UpsertStep =>
               /\ Readable(manifest')
               /\ \A k \in Keys(all_new_manifest_records, ManifestKey) :
                    LastWith(all_new_manifest_records, ManifestKey, k)
                      \in RowSet(manifest'.rows)
    ]_vars

\* a run of two league-seasons, each with a match fetched, has ended and the
\* manifest holds the entries of both
ManifestOncePerRunWitness ==
  /\ rpc = "idle"
  /\ units_done = MaxPlan
  /\ \A m \in MatchIds :
       /\ SeasonScraped(m)
       /\ \E f \in MatchFetches(m) : f[1] = "stats" /\ f[3] # None
  /\ Readable(manifest)
  /\ \A m \in MatchIds : ManifestKeyOf(m) \in {KeyTuple(r) : r \in RowSet(manifest.rows)}

\* C22 -- partition files are append-only from the acquisition side: no
\* step of a scrape run removes a partition file or a key from it, a file
\* that cannot be read is left as it is, and a step that brings a file no
\* new key leaves the file unchanged
PartitionsAppendOnly ==
  [][\A tt \in DataTypes, c \in CoordIdx :
       LET f == parts[tt][c]
           g == parts'[tt][c]
       IN /\ f.exists => g.exists
          /\ (f.exists /\ ~f.ok) => g = f
          /\ Readable(f) =>
               /\ Readable(g)
               /\ Keys(f.rows, dedup_cols(tt)) \subseteq Keys(g.rows, dedup_cols(tt))
               /\ Keys(g.rows, dedup_cols(tt)) = Keys(f.rows, dedup_cols(tt)) => g = f
    ]_vars

\* the file of player_stats held match 2 alone; a run after the upstream's
\* correction has added match 1 behind it
PartitionsAppendOnlyWitness ==
  /\ rpc = "scraping"
  /\ units_done > 0
  /\ Readable(parts["player_stats"][MatchCoord[1]])
  /\ parts["player_stats"][MatchCoord[1]].rows
       = <<MkRow("player_stats", 2, "v0"), MkRow("player_stats", 1, "v1")>>

\* the number of records of the merged, deduplicated result of a unit
MergedCount(existing, files, subset) ==
  Cardinality(Keys(existing, subset) \cup Keys(NewRows(files), subset))

\* the guard's condition as the claim states it
RejectIff(N, M) == N > 0 /\ 2 * M < N

\* C23 -- exact firing condition of the data-loss guard: a unit that merges
\* is rejected if and only if its existing batch has N > 0 records and the
\* merged, deduplicated result has M records with 2*M < N, and is written
\* with M records otherwise; a unit that merges nothing is not rejected
GuardFiresExactly ==
  [][/\ TablesStep =>
          \A tt \in TableTypes :
            LET N == Len(LoadedRows(tt))
                M == MergedCount(LoadedRows(tt), parts[tt], IdentityKey(tt))
                merges == /\ HasPartitions(parts[tt])
                          /\ \/ Readable(parent_files[tt])
                             \/ Readable(output_files[tt])
                             \/ HasReadable(parts[tt])
            IN /\ outcome'[tt] = "REJECTED" <=> (merges /\ RejectIff(N, M))
               /\ (merges /\ ~RejectIff(N, M)) =>
                    /\ outcome'[tt] = "WRITTEN"
                    /\ Len(output_files'[tt].rows) = M
     /\ LeaguesStep =>
          \A lg \in Leagues :
            LET files == parts["match_events"]
                N == Len(events_files[lg].rows)
                M == MergedCount(events_files[lg].rows, files, IdentityKey("match_events"))
                merges == /\ events_files[lg].exists => events_files[lg].ok
                          /\ Readable(events_files[lg]) \/ HasReadable(files)
            IN /\ outcome'[lg] = "REJECTED" <=> (merges /\ RejectIff(N, M))
               /\ (merges /\ ~RejectIff(N, M)) =>
                    /\ outcome'[lg] = "WRITTEN"
                    /\ Len(events_files'[lg].rows) = M
    ]_vars

\* an existing batch of two records of one key was merged with an empty
\* partition: the result of one record, exactly half, was written
GuardFiresExactlyWitness ==
  /\ cpc = "opta"
  /\ Len(parent_files["player_stats"].rows) = 2
  /\ Cardinality(Keys(parent_files["player_stats"].rows, IdentityKey("player_stats"))) = 1
  /\ parts["player_stats"][1] = EmptyPartition("player_stats")
  /\ outcome["player_stats"] = "WRITTEN"
  /\ Len(output_files["player_stats"].rows) = 1

\* the rows a table type merges, in the order of the concatenation
MergeInput(tt) == LoadedRows(tt) \o NewRows(parts[tt])

\* rows is input deduplicated on subset
DedupedOn(rows, input, subset) == ExactlyKeys(rows, subset, Keys(input, subset))

\* the batch has none of the key fields expected for its type but match_id
NoExpectedKey(tt, cols) ==
  /\ ~(tt \in {"shot_events", "match_events"} /\ "event_id" \in cols)
  /\ ~(tt = "events" /\ {"event_type", "minute", "player_id"} \subseteq cols)
  /\ "player_id" \notin cols

\* C24 as stated -- fallback identity key: a table type whose merged batch has
\* none of the expected key fields, match_id included, is merged without
\* failure and deduplicated on match_id alone
FallbackIsMatchId ==
  [][TablesStep =>
       \A tt \in TableTypes :
         HasReadable(parts[tt]) =>
           /\ outcome'[tt] = "WRITTEN"
           /\ NoExpectedKey(tt, output_files'[tt].cols) =>
                DedupedOn(output_files'[tt].rows, MergeInput(tt), {"match_id"})
    ]_vars

\* C24 amended -- fallback identity key: a table type whose merged batch has
\* match_id but none of the other key fields expected for its type is merged
\* without failure and deduplicated on match_id alone; a batch without a
\* match_id column is merged without failure and written with all its rows,
\* not deduplicated
FallbackOrNoDedup ==
  [][TablesStep =>
       \A tt \in TableTypes :
         HasReadable(parts[tt]) =>
           /\ outcome'[tt] = "WRITTEN"
           /\ ("match_id" \in output_files'[tt].cols
                 /\ NoExpectedKey(tt, output_files'[tt].cols)) =>
                DedupedOn(output_files'[tt].rows, MergeInput(tt), {"match_id"})
           /\ "match_id" \notin output_files'[tt].cols =>
                output_files'[tt].rows = MergeInput(tt)
    ]_vars

\* a batch of shot_events with match_id and without event_id and player_id
\* was written with one record for its match, the one of the partition
FallbackOrNoDedupWitness ==
  /\ cpc = "opta"
  /\ outcome["shot_events"] = "WRITTEN"
  /\ output_files["shot_events"].cols \cap KeyColumns = {"match_id", "event_type"}
  /\ Len(parent_files["shot_events"].rows) = 1
  /\ Len(output_files["shot_events"].rows) = 1
  /\ output_files["shot_events"].rows[1].val = "v1"
  /\ output_files["shot_events"].rows[1].event_type
       # parent_files["shot_events"].rows[1].event_type

\* the key the claim gives a table type whose batch has the columns cols
ClaimedKey(tt, cols) ==
  IF tt \in {"shot_events", "match_events"} /\ "event_id" \in cols
  THEN {"match_id", "event_id"}
  ELSE IF tt = "events" /\ {"match_id", "event_type", "minute", "player_id"} \subseteq cols
  THEN {"match_id", "event_type", "minute", "player_id"}
  ELSE IF "player_id" \in cols
  THEN {"match_id", "player_id"}
  ELSE {"match_id"}

\* C25 as stated -- identity-key selection by table type: every unit that is
\* written is deduplicated on exactly one key, (match_id, event_id) for
\* shot_events and match_events with event_id, the four columns for events
\* that has them, (match_id, player_id) for any other table with player_id,
\* match_id alone otherwise
KeyByTableType ==
  [][TablesStep =>
       \A tt \in TableTypes :
         outcome'[tt] = "WRITTEN" =>
           DedupedOn(output_files'[tt].rows, MergeInput(tt),
                     ClaimedKey(tt, output_files'[tt].cols))
    ]_vars

\* C25 amended -- identity-key selection by table type: a unit whose merged
\* batch has a match_id column is deduplicated on exactly one key, chosen in
\* the stated order of precedence; a unit whose batch has no match_id column
\* is not deduplicated
KeyByTableTypeWithMatchId ==
  [][TablesStep =>
       \A tt \in TableTypes :
         outcome'[tt] = "WRITTEN" =>
           IF "match_id" \in output_files'[tt].cols
           THEN DedupedOn(output_files'[tt].rows, MergeInput(tt),
                          ClaimedKey(tt, output_files'[tt].cols))
           ELSE output_files'[tt].rows = MergeInput(tt)
    ]_vars

\* shot_events with event_id and player_id: two rows of one match and one
\* player with different event_id were both kept
KeyByTableTypeWithMatchIdWitness ==
  /\ cpc = "opta"
  /\ outcome["shot_events"] = "WRITTEN"
  /\ KeyColumns \subseteq output_files["shot_events"].cols
  /\ Len(output_files["shot_events"].rows) = 2
  /\ \A i \in 1..Len(output_files["shot_events"].rows) :
       /\ output_files["shot_events"].rows[i].match_id = 1
       /\ output_files["shot_events"].rows[i].player_id = 1

\* C26 -- an unreadable existing consolidated file is never overwritten: a
\* unit that has partition files to merge and whose consolidated output file
\* exists and cannot be read leaves the file as it was and ends in an error
\* that the run counts
UnreadableNeverOverwritten ==
  [][/\ TablesStep =>
          \A tt \in TableTypes :
            (HasPartitions(parts[tt]) /\ output_files[tt].exists /\ ~output_files[tt].ok) =>
              /\ output_files'[tt] = output_files[tt]
              /\ outcome'[tt] \in {"ERROR", "REJECTED"}
              /\ errors' > 0
     /\ LeaguesStep =>
          \A lg \in Leagues :
            (events_files[lg].exists /\ ~events_files[lg].ok) =>
              /\ events_files'[lg] = events_files[lg]
              /\ outcome'[lg] \in {"ERROR", "REJECTED"}
              /\ errors' > errors
    ]_vars

\* the entries of a manifest file with the key of r
SameKey(f, r) == {x \in RowSet(f.rows) : KeyTuple(x) = KeyTuple(r)}

\* C27 -- completeness is monotonic without force: after every step of
\* scrape runs without the force flag, a key that had an entry with
\* has_match_events = true in the manifest still has an entry with
\* has_match_events = true and event_unavailable = false
CompleteStaysComplete ==
  [][(~args.force /\ ~args'.force /\ Readable(manifest)) =>
       \A r \in RowSet(manifest.rows) :
         r.has_match_events =>
           /\ Readable(manifest')
           /\ \E x \in SameKey(manifest', r) :
                x.has_match_events /\ ~x.event_unavailable
    ]_vars

\* C28 -- complete and unavailable are mutually exclusive: in every state of
\* the persisted manifest, after any sequence of update_manifest upserts and
\* build_manifest rebuilds, no entry has both has_match_events = true and
\* event_unavailable = true
CompleteExcludesUnavailable ==
  Readable(manifest) =>
    \A r \in RowSet(manifest.rows) : ~(r.has_match_events /\ r.event_unavailable)

\* after a scrape run the manifest holds a complete entry and an unavailable
\* entry
CompleteExcludesUnavailableWitness ==
  /\ Readable(manifest)
  /\ \E r \in RowSet(manifest.rows) : r.has_match_events /\ ~r.event_unavailable
  /\ \E r \in RowSet(manifest.rows) : r.event_unavailable /\ ~r.has_match_events
  /\ rpc = "idle"
  /\ units_done > 0

\* the manifest file f marks match m complete or unavailable in its season
Marked(f, m) ==
  /\ Readable(f)
  /\ \E r \in RowSet(f.rows) :
       /\ KeyTuple(r) = ManifestKeyOf(m)
       /\ r.has_match_events \/ r.event_unavailable

\* the records a league-season has added to the accumulator
AddedRecords ==
  {all_new_manifest_records'[i] :
     i \in (Len(all_new_manifest_records) + 1)..Len(all_new_manifest_records')}

\* C29 -- the skip-set contains nothing else: in a run without the force
\* flag a played match of a league-season the run has scraped is left
\* unfetched only if the manifest of the start of the run marks it complete
\* or unavailable in that season; a match whose stats request failed gets no
\* record, and a recent match whose matchevent request failed gets a record
\* with has_match_events = false and event_unavailable = false, so that the
\* next run fetches both again
SkipSetNothingElse ==
  [][(UnitStep /\ ~args.force) =>
       /\ \A m \in listed :
            (SeasonScraped(m)' /\ MatchFetches(m)' = {}) => Marked(manifest, m)
       /\ \A f \in fetched' \ fetched :
            /\ (f[1] = "stats" /\ f[3] = None) =>
                 \A r \in AddedRecords : r.match_id # f[2]
            /\ (f[1] = "events" /\ f[3] \in RequestFailures /\ is_recent(f[2], now)) =>
                 /\ \E r \in AddedRecords : r.match_id = f[2]
                 /\ \A r \in AddedRecords :
                      r.match_id = f[2] => (~r.has_match_events /\ ~r.event_unavailable)
    ]_vars

\* a run without force works from a manifest that holds an entry with both
\* flags false for a match and no other entry of its key, and has fetched
\* the match again; the stats request of another match has failed
SkipSetNothingElseWitness ==
  /\ rpc = "scraping"
  /\ ~args.force
  /\ Readable(manifest)
  /\ \E m \in listed :
       /\ \E r \in RowSet(manifest.rows) :
            KeyTuple(r) = ManifestKeyOf(m) /\ ~r.has_match_events /\ ~r.event_unavailable
       /\ ~Marked(manifest, m)
       /\ \E f \in MatchFetches(m) : f[1] = "stats"
  /\ \E m \in listed :
       /\ MatchFetches(m) = {<<"stats", m, None>>}
       /\ \A r \in RowSet(all_new_manifest_records) : r.match_id # m

\* the match_events partition file of the season of match m holds a record
\* of the match
HasEventData(m) ==
  /\ Readable(parts["match_events"][MatchCoord[m]])
  /\ \E x \in RowSet(parts["match_events"][MatchCoord[m]].rows) : x.match_id = m

\* C30 -- manifest completeness is backed by data: when a scrape run ends,
\* every record it hands to update_manifest with has_match_events = true
\* has at least one record of its match in the match_events partition file
\* of its competition and season
CompleteBackedByData ==
  [][FinishStep =>
       \A r \in RowSet(all_new_manifest_records) :
         r.has_match_events => HasEventData(r.match_id)
    ]_vars

====
